---- MODULE Spec2Model ----
(***************************************************************************)
(* CacheLocalStorage (src/src/worker.ts): the storage facade, its codec    *)
(* pipeline, and the service worker's message handler with its in-memory   *)
(* map and its mirror into the persistent cache.                           *)
(*                                                                         *)
(* One behaviour is one browser page: the facade instances it constructs   *)
(* (live), one service worker, the Cache Storage of the origin.  Public    *)
(* operations are awaited one after the other (each action is one whole    *)
(* call); the worker's mirror writes run in the background as their own    *)
(* steps.  Spec has one instance making any calls; SpecCodec has a writer  *)
(* and a fresh reader under every codec combination; SpecQuota has one     *)
(* instance that only writes, under a zero and a non-zero maxSize.         *)
(***************************************************************************)
EXTENDS Integers, Sequences, FiniteSets, TLC

VARIABLES
    env,            \* the page: what the platform offers
    live,           \* the instances the page has constructed
    options,        \* options[i]: the StorageOptions instance i was built with
    initDone,       \* initDone[i]: initPromise of instance i has resolved
    hasServiceWorker, \* this.hasServiceWorker of each instance
    currentSize,    \* this.currentSize of each instance
    cacheStore,     \* this.cacheStore of each instance: key -> value
    storage,        \* the worker's Map: key -> {data, size}
    caches,         \* Cache Storage: namespace -> key -> stored body
    controller,     \* navigator.serviceWorker.controller is set
    mirrors,        \* persistToCache calls that have not finished
    last,           \* the call that completed last, with what it returned
    ops,            \* number of public calls and direct messages so far
    hist,           \* hist[i][k]: what i's calls last did to key k
    cum,            \* cum[i]: bytes written by i's setItem calls, while it
                    \* has made no other call since its init (else -1)
    handled,        \* the message a client posted to the worker last, with
                    \* the replies its handler posted on the message's port
    latest,         \* latest[k]: {data, size} of the last store message for
                    \* k, none since a delete of k or a clear
    pending         \* the public calls that are suspended at an await

vars == << env, live, options, initDone, hasServiceWorker, currentSize, cacheStore,
           storage, caches, controller, mirrors, last, ops, hist, cum, handled,
           latest, pending >>

-----------------------------------------------------------------------------
(* Bounds of the model *)

MaxOps == 3            \* public calls per behaviour
MaxMirrors == 1        \* persistToCache calls in flight at once
MaxOverlap == 2        \* the same, where the worker-backed write path runs alone
MaxPending == 2        \* public calls suspended at an await at once
SmallMaxSize == 50     \* the non-default maxSize option tried
SmallThreshold == 10   \* the compression.threshold option tried

(* Constants of the program *)

DefaultMaxSize == 52428800

Instances == {1, 2}
Keys == {"a", "b"}
Namespaces == {"application", "other"}
Fields == {"name", "age"}

-----------------------------------------------------------------------------
(* JSON values.  A scalar is [t, s]: its typeof and its JSON text (for a   *)
(* string, its characters).  A value is a scalar or a flat object whose    *)
(* fields hold scalars; an absent field reads as undefined.                *)

Undefined == [t |-> "undefined", s |-> ""]
Num(s) == [t |-> "number", s |-> s]
Str(s) == [t |-> "string", s |-> s]
Bool(s) == [t |-> "boolean", s |-> s]
\* a nested object and an array held by a field: typeof gives "object" for
\* both; s is the JSON text
Plain == [t |-> "object", s |-> "{}"]
Arr == [t |-> "object", s |-> "[]"]

NoFields == [n \in Fields |-> Undefined]
ScalarValue(x) == [t |-> x.t, s |-> x.s, f |-> NoFields]
Obj(name, age) == [t |-> "object", s |-> "", f |-> [name |-> name, age |-> age]]

NoValue == ScalarValue(Undefined)
Zero == ScalarValue(Num("0"))

AgeValues == {Num("30"), Num("31"), Str("x")}
Objects == {Obj(Str("John"), a) : a \in AgeValues} \cup {Obj(Undefined, Num("31"))}
Values == {Zero} \cup Objects
Partials == {Obj(Undefined, Num("31")), Obj(Str("John"), Undefined)}

\* JavaScript truthiness of a value (0, "", false, null, undefined are falsy)
Truthy(v) ==
    CASE v.t = "object" -> TRUE
      [] v.t = "undefined" -> FALSE
      [] v.t = "null" -> FALSE
      [] v.t = "number" -> v.s # "0"
      [] v.t = "boolean" -> v.s = "true"
      [] v.t = "string" -> v.s # ""
      [] OTHER -> TRUE

-----------------------------------------------------------------------------
(* JSON.stringify and JSON.parse on these values.  Fields are written in   *)
(* insertion order (name, age); undefined fields are left out.             *)

ScalarText(x) == IF x.t = "string" THEN "\"" \o x.s \o "\"" ELSE x.s

MemberText(v, n) ==
    IF v.f[n] = Undefined THEN "" ELSE "\"" \o n \o "\":" \o ScalarText(v.f[n])

JSONstringify(v) ==
    IF v.t = "object"
    THEN "{" \o MemberText(v, "name")
             \o (IF v.f["name"] # Undefined /\ v.f["age"] # Undefined
                 THEN "," ELSE "")
             \o MemberText(v, "age") \o "}"
    ELSE ScalarText(v)

\* {threw, error, value}: what a step that may throw hands back
Ok(x) == [threw |-> FALSE, error |-> "", value |-> x]
Throw(e) == [threw |-> TRUE, error |-> e, value |-> NoValue]

-----------------------------------------------------------------------------
(* Payload forms.  text is the serialized JSON the payload was made from.  *)
(*   string        the serialized text itself                              *)
(*   Uint8Array    gzip bytes of text                                      *)
(*   base64        btoa of the gzip bytes of text (a string)               *)
(*   indexObject   {"0":31,"1":139,...}: a Uint8Array after JSON           *)
(*   EncryptedData {data, iv, wasCompressed}: AES-GCM of plainForm of text *)

Payload(form, text, plainForm, wasCompressed, key) ==
    [form |-> form, text |-> text, plainForm |-> plainForm,
     wasCompressed |-> wasCompressed, key |-> key]

Text(s) == Payload("string", s, "", FALSE, "")
Bytes(s) == Payload("Uint8Array", s, "", FALSE, "")
Base64(s) == Payload("base64", s, "", FALSE, "")
IndexObject(s) == Payload("indexObject", s, "", FALSE, "")
NoPayload == Payload("null", "", "", FALSE, "")

IsString(p) == p.form \in {"string", "base64"}

\* Length of the gzip stream of s: header and trailer, plus a deflate body
\* that is shorter than s (the platform's codec; only its length is used).
GzipLength(s) == 18 + (Len(s) \div 2)

\* compressed.length, or new Blob([compressed]).size for a string
ByteLength(p) == IF p.form = "Uint8Array" THEN GzipLength(p.text) ELSE Len(p.text)

\* The texts of the values of the model, and JSON.parse as the way back
\* The values two racing updateItem calls can leave: {name:'Jane'} merged
\* into the stored objects
Renamed == {Obj(Str("Jane"), Num("30")), Obj(Str("Jane"), Num("31"))}
Storable == Values \cup Partials \cup Renamed \cup {Obj(Str("Jane"), Undefined)}
Serialized == [v \in Storable |-> JSONstringify(v)]

JSONparse(p) ==
    IF p.form = "string" /\ \E v \in Storable : Serialized[v] = p.text
    THEN Ok(CHOOSE v \in Storable : Serialized[v] = p.text)
    ELSE Throw("SyntaxError")

\* What JSON.stringify followed by JSON.parse makes of a payload
JsonRoundTrip(p) == IF p.form = "Uint8Array" THEN IndexObject(p.text) ELSE p

dataToString(p) == IF p.form = "string" THEN p ELSE Base64(p.text)

stringToData(str, wasCompressed) ==
    IF ~wasCompressed THEN Ok(str)
    ELSE IF str.form = "base64" THEN Ok(Bytes(str.text))
    ELSE Throw("InvalidCharacterError")

encrypt(i, p) ==
    IF options[i].encryptionKey = "" \/ ~env.hasWebCrypto
    THEN Throw("Encryption not available")
    ELSE [threw |-> FALSE, error |-> "",
          value |-> Payload("EncryptedData", p.text, dataToString(p).form,
                            p.form = "Uint8Array", options[i].encryptionKey)]

decrypt(i, p) ==
    IF options[i].encryptionKey = "" \/ ~env.hasWebCrypto
    THEN Throw("Decryption not available")
    ELSE IF p.form # "EncryptedData" \/ p.key # options[i].encryptionKey
    THEN Throw("OperationError")
    ELSE stringToData(Payload(p.plainForm, p.text, "", FALSE, ""), p.wasCompressed)

\* A compress without its fallback: gzip bytes whenever the text reaches the
\* threshold (what BestEffortCompression is tested against)
compressNoFallback(i, data, compressOk) ==
    IF ~options[i].compression THEN Text(data)
    ELSE IF Len(data) < options[i].threshold THEN Text(data)
    ELSE Bytes(data)

\* compress: compressOk is FALSE when the compression step throws or the
\* page has neither CompressionStream nor pako
compress(i, data, compressOk) ==
    IF ~options[i].compression THEN Text(data)
    ELSE IF Len(data) < options[i].threshold THEN Text(data)
    ELSE IF compressOk THEN Bytes(data)
    ELSE Text(data)

decompress(i, p) ==
    IF ~options[i].compression \/ IsString(p) THEN Ok(p)
    ELSE IF p.form = "Uint8Array" THEN Ok(Text(p.text))
    ELSE Throw("TypeError")

-----------------------------------------------------------------------------
(* Schemas.  A definition is {type, required, validate}; the predicate is  *)
(* given by the scalars it accepts.                                        *)

NoSchema == [given |-> FALSE,
             defs |-> [n \in Fields |->
                        [type |-> "", required |-> FALSE, validate |-> FALSE,
                         accepts |-> {}]]]
UserSchema == [given |-> TRUE,
               defs |-> [name |-> [type |-> "string", required |-> TRUE,
                                   validate |-> FALSE, accepts |-> {}],
                         age |-> [type |-> "number", required |-> FALSE,
                                  validate |-> TRUE, accepts |-> {Num("31")}]]]
Schemas == {NoSchema, UserSchema}

\* type SchemaType
SchemaTypes == {"string", "number", "boolean", "object", "array"}

\* Schemas that declare a type for name (required or not) and for age, with
\* no validate function
TypedSchemas ==
    {[given |-> TRUE,
      defs |-> [name |-> [type |-> tn, required |-> rn, validate |-> FALSE,
                          accepts |-> {}],
                age |-> [type |-> ta, required |-> FALSE, validate |-> FALSE,
                         accepts |-> {}]]] :
       tn \in SchemaTypes, rn \in BOOLEAN, ta \in SchemaTypes}

\* One field value of each kind, and the data objects made of them
Samples == {Str("x"), Num("1"), Bool("true"), Plain, Arr}
SampleData == {Obj(n, a) : n \in Samples \cup {Undefined}, a \in Samples \cup {Undefined}}

\* The kind of a present field value: "array" where Array.isArray holds,
\* its typeof otherwise
KindOf(x) == IF x = Arr THEN "array" ELSE x.t
SchemaOrder == << "name", "age" >>

RECURSIVE validateFrom(_, _, _)
validateFrom(data, schema, n) ==
    IF n > Len(SchemaOrder) THEN Ok(NoValue)
    ELSE LET key == SchemaOrder[n]
             def == schema.defs[key]
             value == data.f[key]
         IN  IF def.required /\ value = Undefined
             THEN Throw("Required field missing: " \o key)
             ELSE IF value # Undefined /\ value.t # def.type
             THEN Throw("Invalid type for " \o key)
             ELSE IF value # Undefined /\ def.validate /\ value \notin def.accepts
             THEN Throw("Validation failed for " \o key)
             ELSE validateFrom(data, schema, n + 1)

\* A validateSchema that checks required fields only (what SchemaGate is
\* tested against)
validateRequiredOnly(data, schema) ==
    IF \E n \in Fields : schema.defs[n].required /\ data.f[n] = Undefined
    THEN Throw("Required field missing")
    ELSE Ok(NoValue)

validateSchema(data, schema) == validateFrom(data, schema, 1)

-----------------------------------------------------------------------------
(* Stored records.  StorageData is what setItem builds ({data, metadata}); *)
(* an absent one stands for null / no response.                            *)

Metadata(compressed, originalSize, compressedSize) ==
    [compressed |-> compressed, originalSize |-> originalSize,
     compressedSize |-> compressedSize]

StorageData(data, metadata) == [has |-> TRUE, data |-> data, metadata |-> metadata]
NoData == [has |-> FALSE, data |-> NoPayload, metadata |-> Metadata(FALSE, 0, 0)]

\* An entry of the worker's Map: {data, size} (the timestamp is left out)
Entry(data, size) == [sd |-> data, size |-> size]
NoEntry == Entry(NoData, 0)

\* The body a Response built from JSON.stringify(storageData) gives back
\* through response.json()
Body(sd) == StorageData(JsonRoundTrip(sd.data), sd.metadata)

\* Number of characters JSON.stringify escapes when it quotes the text
QuoteCount(text) ==
    LET v == JSONparse(Text(text)).value
    IN  IF v.t # "object" THEN (IF v.t = "string" THEN 2 ELSE 0)
        ELSE Cardinality({n \in Fields : v.f[n] # Undefined}) * 2
             + Cardinality({n \in Fields : v.f[n].t = "string"}) * 2

\* Length of JSON.stringify(payload): a quoted string; an object of decimal
\* bytes for a Uint8Array; the number arrays of an EncryptedData (a byte is
\* taken as three characters and its comma, the plaintext as its text or as
\* the base64 of its gzip stream, plus the 16-byte tag and the 12-byte iv)
PayloadJsonLength(p) ==
    CASE p.form = "string" -> Len(p.text) + QuoteCount(p.text) + 2
      [] p.form = "indexObject" -> 2 + GzipLength(p.text) * 8
      [] p.form = "EncryptedData" ->
            Len("{\"data\":[],\"iv\":[],\"wasCompressed\":false}")
            + 4 * (16 + 12 + (IF p.wasCompressed
                              THEN ((GzipLength(p.text) + 2) \div 3) * 4
                              ELSE Len(p.text)))
      [] OTHER -> 0

\* blob.size of a stored response
BodyLength(body) ==
    Len("{\"data\":") + PayloadJsonLength(body.data)
    + Len(",\"metadata\":{\"compressed\":"
          \o (IF body.metadata.compressed THEN "true" ELSE "false")
          \o ",\"originalSize\":" \o ToString(body.metadata.originalSize)
          \o ",\"compressedSize\":" \o ToString(body.metadata.compressedSize)
          \o "}}")

RECURSIVE SumOver(_, _)
SumOver(f, S) ==
    IF S = {} THEN 0
    ELSE LET k == CHOOSE x \in S : TRUE IN f[k] + SumOver(f, S \ {k})

-----------------------------------------------------------------------------
(* The service worker: its message handler and persistToCache              *)

\* case "retrieve": data?.data ?? null
WorkerRetrieve(key) == storage[key].sd

\* case "getSize": the sum of the sizes in the Map
WorkerGetSize == SumOver([k \in Keys |-> storage[k].size], Keys)

\* A store that adds the new size to the size the key had (what SizeIsSum is
\* tested against)
WorkerStoreAdding(key, data, size) ==
    [storage EXCEPT ![key] = [sd |-> data, size |-> storage[key].size + size]]

\* case "store": storage.set(key, {data, size, timestamp})
WorkerStore(key, data, size) == [storage EXCEPT ![key] = Entry(data, size)]

MirrorTask(id, ns, phase, key, body) ==
    [id |-> id, ns |-> ns, phase |-> phase, key |-> key, body |-> body]

\* A handler that leaves no persistToCache running when it replies (what
\* FireAndForget is tested against)
persistToCacheNotLeftRunning(ns) == mirrors

\* persistToCache({namespace}) called and not awaited: it is waiting for
\* caches.open(namespace)
persistToCache(ns) == mirrors \cup {MirrorTask(ops, ns, "open", "", NoData)}

MirrorsInFlight == Cardinality({t.id : t \in mirrors})

\* A delete that leaves the Map as it is (what StoreRetrieve is tested
\* against)
WorkerDeleteNothing(key) == storage

\* case "delete": storage.delete(key); case "clear": storage.clear()
WorkerDelete(key) == [storage EXCEPT ![key] = NoEntry]
WorkerClear == [k \in Keys |-> NoEntry]

\* What client.postMessage is given: {success: true}, the payload or null,
\* {size}
Reply(kind, sd, size) == [kind |-> kind, sd |-> sd, size |-> size]

\* A handler that answers store, retrieve and getSize only (what
\* OneReply is tested against)
WorkerReplyStoreOnly(type, key, map) ==
    CASE type = "store" -> << Reply("success", NoData, 0) >>
      [] type = "retrieve" -> << Reply("payload", map[key].sd, 0) >>
      [] type = "getSize" ->
            << Reply("size", NoData, SumOver([k \in Keys |-> map[k].size], Keys)) >>
      [] OTHER -> << >>

\* The replies the handler posts for a message of this type, map being the
\* Map as the case has left it
WorkerReply(type, key, map) ==
    CASE type \in {"store", "delete", "clear"} -> << Reply("success", NoData, 0) >>
      [] type = "retrieve" -> << Reply("payload", map[key].sd, 0) >>
      [] type = "getSize" ->
            << Reply("size", NoData, SumOver([k \in Keys |-> map[k].size], Keys)) >>
      [] OTHER -> << >>

\* A message as the handler reads it (event.data, event.ports[0]), and the
\* replies posted for it
Message(type, key, data, size, ns, port, replies) ==
    [type |-> type, key |-> key, data |-> data, size |-> size, ns |-> ns,
     port |-> port, replies |-> replies]
NoMessage == Message("none", "", NoData, 0, "", FALSE, << >>)

-----------------------------------------------------------------------------
(* The facade: fields fixed by the constructor                             *)

\* this.maxSize = options.maxSize || 50 * 1024 * 1024
maxSize(i) == IF options[i].maxSize = 0 THEN DefaultMaxSize ELSE options[i].maxSize

namespace(i) == options[i].namespace

\* What the platform may do to one call: nothing; the compression step fails
\* or no compression capability exists; a Cache Storage call rejects
Faults(i) ==
    {"none"} \cup (IF options[i].compression THEN {"compress"} ELSE {})
             \cup (IF hasServiceWorker[i] THEN {} ELSE {"cache"})

\* calculateCacheSize over cache.keys() of the namespace
calculateCacheSize(ns) ==
    SumOver([k \in Keys |-> IF caches[ns][k].has THEN BodyLength(caches[ns][k]) ELSE 0],
            Keys)

\* A calculateCurrentSize that hands back the running counter without asking
\* the backend (what StatsRecomputed is tested against)
currentSizeKept(i, viaWorker, fault) == currentSize[i]

\* calculateCurrentSize: the value it leaves in this.currentSize, given
\* whether the instance talks to the worker
calculateCurrentSize(i, viaWorker, fault) ==
    IF viaWorker THEN WorkerGetSize
    ELSE IF fault = "cache" THEN 0
    ELSE calculateCacheSize(namespace(i))

-----------------------------------------------------------------------------
(* getItem                                                                 *)

\* What the body of a public method hands back: it returned {success, data,
\* error} or it threw; calls counts the worker messages and cache calls it
\* made; cacheSet says this.cacheStore.set(key, data) was reached.
\* stored: the backend put was made; committed: currentSize and cacheStore
\* were updated; size and sd: what was (or would have been) written; caught:
\* the method's catch block produced the result.
Result(threw, success, data, error, calls, cacheSet, stored, size, sd) ==
    [threw |-> threw, caught |-> FALSE, success |-> success, data |-> data,
     error |-> error, calls |-> calls, cacheSet |-> cacheSet, stored |-> stored,
     committed |-> success /\ stored, size |-> size, sd |-> sd]

Returned(success, data, error, calls, cacheSet) ==
    Result(FALSE, success, data, error, calls, cacheSet, FALSE, 0, NoData)
Thrown(error, calls) ==
    Result(TRUE, FALSE, NoValue, error, calls, FALSE, FALSE, 0, NoData)

\* A method body with no try/catch around it (what NoThrow is tested against)
CatchNothing(r) == r

\* catch (error) { return { success: false, error } }
Catch(r) ==
    IF r.threw
    THEN [r EXCEPT !.threw = FALSE, !.caught = TRUE, !.success = FALSE]
    ELSE r

\* Lines 576-591: from the stored record to the parsed value
decode(i, storedData, calls, fault) ==
    IF ~storedData.has THEN Returned(FALSE, NoValue, "Item not found", calls, FALSE)
    ELSE LET decrypted == IF options[i].encryptionKey # ""
                          THEN decrypt(i, storedData.data)
                          ELSE Ok(storedData.data)
             plain == IF decrypted.threw \/ ~storedData.metadata.compressed
                      THEN decrypted
                      ELSE decompress(i, decrypted.value)
             parsed == IF plain.threw THEN plain ELSE JSONparse(plain.value)
         IN  IF parsed.threw THEN Thrown(parsed.error, calls)
             ELSE Returned(TRUE, parsed.value, "", calls, TRUE)

\* The read-cache test of getItem: if (cachedData)
CacheHit(cachedData) == Truthy(cachedData)

getItemBody(i, key, fault) ==
    LET cachedData == cacheStore[i][key]
    IN  IF CacheHit(cachedData) THEN Returned(TRUE, cachedData, "", 0, FALSE)
        ELSE IF hasServiceWorker[i] THEN decode(i, WorkerRetrieve(key), 1, fault)
        ELSE IF fault = "cache" THEN Thrown("cache error", 1)
        ELSE IF ~caches[namespace(i)][key].has
        THEN Returned(FALSE, NoValue, "Item not found", 2, FALSE)
        ELSE decode(i, caches[namespace(i)][key], 2, fault)

getItem(i, key, fault) == Catch(getItemBody(i, key, fault))

-----------------------------------------------------------------------------
(* setItem                                                                 *)

\* What the body of setItem hands back
SetResult(threw, error, calls, stored, committed, data, size, sd) ==
    [Result(threw, committed, IF committed THEN data ELSE NoValue, error, calls,
            committed, stored, size, sd) EXCEPT !.committed = committed]

\* if (this.currentSize + size > this.maxSize)
QuotaExceeded(i, size) == currentSize[i] + size > maxSize(i)

\* Lines 526-537: the backend put; a rejected cache.put writes nothing
putStage(i, data, size, sd, fault) ==
    IF hasServiceWorker[i] THEN SetResult(FALSE, "", 1, TRUE, TRUE, data, size, sd)
    ELSE IF fault = "cache" THEN SetResult(TRUE, "cache error", 2, FALSE, FALSE, data, size, sd)
    ELSE SetResult(FALSE, "", 2, TRUE, TRUE, data, size, sd)

\* A setItem that checks the quota after the put instead of before it (what
\* FailureAtomicity is tested against)
encodeStageQuotaLate(i, data, fault) ==
    LET serialized == Serialized[data]
        compressed == compress(i, serialized, fault # "compress")
        size == ByteLength(compressed)
        encrypted == IF options[i].encryptionKey # ""
                     THEN encrypt(i, compressed)
                     ELSE Ok(compressed)
        sd == StorageData(encrypted.value,
                          Metadata(compressed # Text(serialized), Len(serialized), size))
        put == putStage(i, data, size, sd, fault)
    IN  IF encrypted.threw
        THEN SetResult(TRUE, encrypted.error, 0, FALSE, FALSE, data, size, NoData)
        ELSE IF QuotaExceeded(i, size) /\ ~put.threw
        THEN SetResult(TRUE, "Storage quota exceeded", put.calls, TRUE, FALSE,
                       data, size, sd)
        ELSE put

\* Lines 506-537: serialize, compress, quota check, encrypt, put
encodeStage(i, data, fault) ==
    LET serialized == Serialized[data]
        compressed == compress(i, serialized, fault # "compress")
        size == ByteLength(compressed)
        encrypted == IF options[i].encryptionKey # ""
                     THEN encrypt(i, compressed)
                     ELSE Ok(compressed)
        sd == StorageData(encrypted.value,
                          Metadata(compressed # Text(serialized), Len(serialized), size))
    IN  IF QuotaExceeded(i, size)
        THEN SetResult(TRUE, "Storage quota exceeded", 0, FALSE, FALSE, data, size, NoData)
        ELSE IF encrypted.threw
        THEN SetResult(TRUE, encrypted.error, 0, FALSE, FALSE, data, size, NoData)
        ELSE putStage(i, data, size, sd, fault)

setItemBody(i, data, schema, fault) ==
    LET valid == IF schema.given THEN validateSchema(data, schema) ELSE Ok(NoValue)
    IN  IF valid.threw
        THEN SetResult(TRUE, valid.error, 0, FALSE, FALSE, data, 0, NoData)
        ELSE encodeStage(i, data, fault)

setItem(i, data, schema, fault) == Catch(setItemBody(i, data, schema, fault))

\* A merge in which the stored fields win: { ...updates, ...current.data }
\* (what UpdateSemantics is tested against)
MergeReversed(current, updates) ==
    [t |-> "object", s |-> "",
     f |-> [n \in Fields |-> IF current.f[n] # Undefined THEN current.f[n]
                             ELSE updates.f[n]]]

\* { ...current.data, ...updates }
Merge(current, updates) ==
    [t |-> "object", s |-> "",
     f |-> [n \in Fields |-> IF updates.f[n] # Undefined THEN updates.f[n]
                             ELSE current.f[n]]]

-----------------------------------------------------------------------------
(* The record of the call that completed last                              *)

NoStats == [used |-> 0, total |-> 0, available |-> 0]
NoCStats == [has |-> FALSE, compressed |-> FALSE, originalSize |-> 0,
             compressedSize |-> 0]

Call(op, i, key, arg, schema, fault, r) ==
    [op |-> op, inst |-> i, key |-> key, arg |-> arg, schema |-> schema.given,
     defs |-> schema.defs, fault |-> fault, threw |-> r.threw, caught |-> r.caught,
     success |-> r.success, data |-> r.data, error |-> r.error,
     calls |-> r.calls, size |-> r.size, stats |-> NoStats, cstats |-> NoCStats]

NoCall == Call("none", 1, "", NoValue, NoSchema, "none",
               Returned(FALSE, NoValue, "", 0, FALSE))

-----------------------------------------------------------------------------
(* Initial state: the page has just constructed its instances              *)

Environments == [swAvailable : BOOLEAN, hasWebCrypto : BOOLEAN]

OptionSets ==
    [maxSize : {0, SmallMaxSize}, encryptionKey : {"", "secret"},
     compression : BOOLEAN, threshold : {SmallThreshold}, namespace : Namespaces]

\* encryption: "off" (no key), "on" (a key and Web Crypto), "unavailable" (a
\* key, but the page has no Web Crypto)
InitWith(constructed, maxSizes, encryptions, compressions) ==
    /\ env \in Environments
    /\ live = constructed
    /\ options \in [Instances -> OptionSets]
    /\ options[1].namespace = "application"
    /\ options[1].maxSize \in maxSizes
    /\ options[1].compression \in compressions
    /\ \E e \in encryptions :
         /\ options[1].encryptionKey = (IF e = "off" THEN "" ELSE "secret")
         /\ env.hasWebCrypto = (e # "unavailable")
    /\ \A i \in Instances :
         /\ options[i].maxSize = options[1].maxSize
         /\ options[i].encryptionKey = options[1].encryptionKey
         /\ options[i].compression = options[1].compression
         /\ i \notin constructed => options[i] = options[1]
    /\ initDone = [i \in Instances |-> FALSE]
    /\ hasServiceWorker = [i \in Instances |-> env.swAvailable]
    /\ currentSize = [i \in Instances |-> 0]
    /\ cacheStore = [i \in Instances |-> [k \in Keys |-> NoValue]]
    /\ storage = [k \in Keys |-> NoEntry]
    /\ caches = [ns \in Namespaces |-> [k \in Keys |-> NoData]]
    /\ controller = FALSE
    /\ mirrors = {}
    /\ last = NoCall
    /\ ops = 0
    /\ hist = [i \in Instances |-> [k \in Keys |-> "none"]]
    /\ cum = [i \in Instances |-> -1]
    /\ handled = NoMessage
    /\ latest = [k \in Keys |-> NoEntry]
    /\ pending = {}

\* One facade instance on the page
Init == InitWith({1}, {SmallMaxSize}, {"off", "unavailable"}, BOOLEAN)

-----------------------------------------------------------------------------
(* History bookkeeping (read by the properties only)                       *)

\* a successful write of key by i; a true removeItem(key); a true clear()
HistWrite(i, key) ==
    [j \in Instances |-> [k \in Keys |->
        IF k # key THEN hist[j][k] ELSE IF j = i THEN "set" ELSE "none"]]
HistRemove(i, key) ==
    [hist EXCEPT ![i][key] = IF @ = "set" THEN "removed" ELSE @]
HistClear(i) ==
    [hist EXCEPT ![i] = [k \in Keys |-> IF hist[i][k] = "set" THEN "cleared"
                                         ELSE hist[i][k]]]

\* a public call by i, writing size bytes if it is a successful setItem
Track(i, isSetItem, size) ==
    /\ ops' = ops + 1
    /\ cum' = [cum EXCEPT ![i] = IF isSetItem /\ @ >= 0 THEN @ + size ELSE -1]

-----------------------------------------------------------------------------
(* init(): initServiceWorker, then calculateCurrentSize                    *)

\* An init that takes the flag from the outcome of the registration alone
\* (what BackendSelection is tested against)
initServiceWorkerSetsFlag(i, registered) == registered

\* this.hasServiceWorker after init: initServiceWorker runs only if the flag
\* is set, and clears it when the registration fails
initServiceWorker(i, registered) == hasServiceWorker[i] /\ registered

\* registered is TRUE where no registration is attempted
InitInstance(i, registered, fault) ==
    /\ i \in live
    /\ ~initDone[i]
    /\ hasServiceWorker[i] \/ registered
    /\ hasServiceWorker[i] /\ registered => fault = "none"
    /\ initDone' = [initDone EXCEPT ![i] = TRUE]
    /\ hasServiceWorker' = [hasServiceWorker EXCEPT ![i] = initServiceWorker(i, registered)]
    /\ controller' = (controller \/ initServiceWorker(i, registered))
    /\ currentSize' = [currentSize EXCEPT
                         ![i] = calculateCurrentSize(i, initServiceWorker(i, registered), fault)]
    /\ cum' = [cum EXCEPT ![i] = 0]
    /\ UNCHANGED << pending, handled, latest, env, live, options, cacheStore, storage, caches, mirrors, last,
                    ops, hist >>

-----------------------------------------------------------------------------
(* Public methods                                                          *)

\* What a completed setItem leaves behind: the worker's Map and a new
\* persistToCache, or the cache entry; then currentSize and cacheStore.
\* read is this.cacheStore as the call found or made it before the write.
\* limit is the number of persistToCache calls explored in flight at once.
CommitWithin(limit, i, key, r, read) ==
    /\ (hasServiceWorker[i] /\ r.calls > 0) => controller
    /\ (hasServiceWorker[i] /\ r.stored) => MirrorsInFlight < limit
    /\ storage' = IF hasServiceWorker[i] /\ r.stored
                  THEN WorkerStore(key, r.sd, r.size)
                  ELSE storage
    /\ mirrors' = IF hasServiceWorker[i] /\ r.stored
                  THEN persistToCache(namespace(i))
                  ELSE mirrors
    /\ caches' = IF r.stored /\ ~hasServiceWorker[i]
                 THEN [caches EXCEPT ![namespace(i)][key] = Body(r.sd)]
                 ELSE caches
    /\ currentSize' = IF r.committed
                      THEN [currentSize EXCEPT ![i] = @ + r.size]
                      ELSE currentSize
    /\ cacheStore' = IF r.committed
                     THEN [read EXCEPT ![i][key] = r.data]
                     ELSE read
    /\ hist' = IF r.success THEN HistWrite(i, key) ELSE hist
    /\ latest' = IF hasServiceWorker[i] /\ r.stored
                 THEN [latest EXCEPT ![key] = Entry(r.sd, r.size)]
                 ELSE latest

Commit(i, key, r, read) == CommitWithin(MaxMirrors, i, key, r, read)

SetItemWithin(limit, i, key, data, schema, fault) ==
    /\ ops < MaxOps
    /\ initDone[i]
    /\ \E r \in {setItem(i, data, schema, fault)} :
         /\ CommitWithin(limit, i, key, r, cacheStore)
         /\ last' = Call("setItem", i, key, data, schema, fault, r)
         /\ Track(i, TRUE, IF r.success THEN r.size ELSE 0)
    /\ UNCHANGED << pending, handled, env, live, options, initDone, hasServiceWorker,
                    controller >>

SetItem(i, key, data, schema, fault) ==
    SetItemWithin(MaxMirrors, i, key, data, schema, fault)

GetItem(i, key, fault) ==
    /\ ops < MaxOps
    /\ initDone[i]
    /\ \E r \in {getItem(i, key, fault)} :
         /\ (hasServiceWorker[i] /\ r.calls > 0) => controller
         /\ cacheStore' = IF r.cacheSet
                          THEN [cacheStore EXCEPT ![i][key] = r.data]
                          ELSE cacheStore
         /\ last' = Call("getItem", i, key, NoValue, NoSchema, fault, r)
    /\ Track(i, FALSE, 0)
    /\ UNCHANGED << pending, handled, latest, env, live, options, initDone, hasServiceWorker, currentSize,
                    storage, caches, controller, mirrors, hist >>

\* An updateItem that writes the updates when the key holds nothing (what
\* UpdateMissing is tested against)
updateItemUpsert(i, key, updates, schema, fault, current) ==
    [setItem(i, Merge(IF current.success /\ Truthy(current.data)
                      THEN current.data ELSE Obj(Undefined, Undefined),
                      updates), schema, fault)
       EXCEPT !.calls = @ + current.calls]

\* updateItem after its getItem returned current: merge, setItem
updateItemBody(i, key, updates, schema, fault, current) ==
    IF ~current.success \/ ~Truthy(current.data)
    THEN [Thrown("Item with key " \o key \o " not found", current.calls)
            EXCEPT !.cacheSet = current.cacheSet]
    ELSE [setItem(i, Merge(current.data, updates), schema, fault)
            EXCEPT !.calls = @ + current.calls]

\* updateItem: getItem, then the rest; its own try/catch around both
updateItem(i, key, updates, schema, fault, current) ==
    Catch(updateItemBody(i, key, updates, schema, fault, current))

UpdateItem(i, key, updates, schema, fault) ==
    /\ ops < MaxOps
    /\ initDone[i]
    /\ \E current \in {getItem(i, key, fault)} :
         \E r \in {updateItem(i, key, updates, schema, fault, current)} :
           /\ Commit(i, key, r,
                     IF current.cacheSet
                     THEN [cacheStore EXCEPT ![i][key] = current.data]
                     ELSE cacheStore)
           /\ last' = Call("updateItem", i, key, updates, schema, fault, r)
    /\ Track(i, FALSE, 0)
    /\ UNCHANGED << pending, handled, env, live, options, initDone, hasServiceWorker,
                    controller >>

\* What removeItem and clear hand back: true, or false from the catch
Flag(ok, calls) == Returned(ok, NoValue, "", calls, FALSE)

\* removeItem: caches.open, cache.delete, cacheStore.delete
removeItemBody(i, key, fault) ==
    IF fault = "cache" THEN Thrown("cache error", 1) ELSE Flag(TRUE, 2)

\* catch (error) { return false }
removeItem(i, key, fault) == Catch(removeItemBody(i, key, fault))

RemoveItem(i, key, fault) ==
    \E r \in {removeItem(i, key, fault)} :
        /\ ops < MaxOps
        /\ caches' = IF r.success
                     THEN [caches EXCEPT ![namespace(i)][key] = NoData]
                     ELSE caches
        /\ cacheStore' = IF r.success
                         THEN [cacheStore EXCEPT ![i][key] = NoValue]
                         ELSE cacheStore
        /\ last' = Call("removeItem", i, key, NoValue, NoSchema, fault, r)
        /\ hist' = IF r.success THEN HistRemove(i, key) ELSE hist
        /\ Track(i, FALSE, 0)
        /\ UNCHANGED << pending, handled, latest, env, live, options, initDone, hasServiceWorker, currentSize,
                        storage, controller, mirrors >>

\* A clear that also resets the size counter (what CounterFrame is tested
\* against)
ClearResetsSize(i, fault) ==
    \E r \in {Catch(IF fault = "cache" THEN Thrown("cache error", 1)
                     ELSE Returned(TRUE, NoValue, "", 1, FALSE))} :
        /\ ops < MaxOps
        /\ caches' = IF r.success
                     THEN [caches EXCEPT ![namespace(i)] = [k \in Keys |-> NoData]]
                     ELSE caches
        /\ cacheStore' = IF r.success
                         THEN [cacheStore EXCEPT ![i] = [k \in Keys |-> NoValue]]
                         ELSE cacheStore
        /\ currentSize' = IF r.success THEN [currentSize EXCEPT ![i] = 0]
                          ELSE currentSize
        /\ last' = Call("clear", i, "", NoValue, NoSchema, fault, r)
        /\ hist' = IF r.success THEN HistClear(i) ELSE hist
        /\ Track(i, FALSE, 0)
        /\ UNCHANGED << pending, handled, latest, env, live, options, initDone, hasServiceWorker,
                        storage, controller, mirrors >>

\* clear: caches.delete(namespace), cacheStore.clear
clearBody(i, fault) ==
    IF fault = "cache" THEN Thrown("cache error", 1) ELSE Flag(TRUE, 1)

clear(i, fault) == Catch(clearBody(i, fault))

Clear(i, fault) ==
    \E r \in {clear(i, fault)} :
        /\ ops < MaxOps
        /\ caches' = IF r.success
                     THEN [caches EXCEPT ![namespace(i)] = [k \in Keys |-> NoData]]
                     ELSE caches
        /\ cacheStore' = IF r.success
                         THEN [cacheStore EXCEPT ![i] = [k \in Keys |-> NoValue]]
                         ELSE cacheStore
        /\ last' = Call("clear", i, "", NoValue, NoSchema, fault, r)
        /\ hist' = IF r.success THEN HistClear(i) ELSE hist
        /\ Track(i, FALSE, 0)
        /\ UNCHANGED << pending, handled, latest, env, live, options, initDone, hasServiceWorker, currentSize,
                        storage, controller, mirrors >>

\* getStats: calculateCurrentSize, then {used, total, available}
GetStats(i, fault) ==
    \E used \in {calculateCurrentSize(i, hasServiceWorker[i], fault)},
       r \in {Returned(TRUE, NoValue, "", 1, FALSE)} :
        /\ ops < MaxOps
        /\ hasServiceWorker[i] => controller
        /\ currentSize' = [currentSize EXCEPT ![i] = used]
        /\ last' = [Call("getStats", i, "", NoValue, NoSchema, fault, r) EXCEPT
                      !.stats = [used |-> used, total |-> maxSize(i),
                                 available |-> maxSize(i) - used]]
        /\ Track(i, FALSE, 0)
        /\ UNCHANGED << pending, handled, latest, env, live, options, initDone, hasServiceWorker, cacheStore,
                        storage, caches, controller, mirrors, hist >>

\* getCompressionStats: the stored record's metadata, or null
getCompressionStats(i, key, fault) ==
    LET storedData == IF hasServiceWorker[i] THEN WorkerRetrieve(key)
                      ELSE IF fault = "cache" THEN NoData
                      ELSE caches[namespace(i)][key]
    IN  IF ~storedData.has THEN NoCStats
        ELSE [has |-> TRUE, compressed |-> storedData.metadata.compressed,
              originalSize |-> storedData.metadata.originalSize,
              compressedSize |-> storedData.metadata.compressedSize]

GetCompressionStats(i, key, fault) ==
    \E c \in {getCompressionStats(i, key, fault)} :
        /\ ops < MaxOps
        /\ hasServiceWorker[i] => controller
        /\ last' = [Call("getCompressionStats", i, key, NoValue, NoSchema, fault,
                           Returned(c.has, NoValue, "",
                                    IF hasServiceWorker[i] THEN 1 ELSE 2, FALSE))
                      EXCEPT !.cstats = c]
        /\ Track(i, FALSE, 0)
        /\ UNCHANGED << pending, handled, latest, env, live, options, initDone, hasServiceWorker, currentSize,
                        cacheStore, storage, caches, controller, mirrors, hist >>

-----------------------------------------------------------------------------
(* persistToCache in the background                                        *)

\* caches.open resolved: one cache.put per entry the Map holds now
MirrorSnapshot(t) ==
    /\ t \in mirrors
    /\ t.phase = "open"
    /\ mirrors' = (mirrors \ {t}) \cup
                  {MirrorTask(t.id, t.ns, "put", k, Body(storage[k].sd)) :
                     k \in {x \in Keys : storage[x].sd.has}}
    /\ UNCHANGED << pending, handled, latest, env, live, options, initDone, hasServiceWorker, currentSize,
                    cacheStore, storage, caches, controller, last, ops, hist,
                    cum >>

\* one cache.put(`/cache-local-storage/storage/${key}`, response) lands
MirrorPut(t) ==
    /\ t \in mirrors
    /\ t.phase = "put"
    /\ caches' = [caches EXCEPT ![t.ns][t.key] = t.body]
    /\ mirrors' = mirrors \ {t}
    /\ UNCHANGED << pending, handled, latest, env, live, options, initDone, hasServiceWorker, currentSize,
                    cacheStore, storage, controller, last, ops, hist, cum >>

\* caches.open or one cache.put rejects: that call writes nothing (the
\* rejection of the unawaited persistToCache is handled by nobody)
MirrorFail(t) ==
    /\ t \in mirrors
    /\ mirrors' = mirrors \ {t}
    /\ UNCHANGED << pending, handled, latest, env, live, options, initDone, hasServiceWorker, currentSize,
                    cacheStore, storage, caches, controller, last, ops, hist,
                    cum >>

-----------------------------------------------------------------------------
(* The worker's message handler, for a message a client posts directly     *)

MessageTypes == {"store", "retrieve", "delete", "clear", "getSize"}

\* The handler from start to end: the case of the switch, persistToCache
\* started and left running, client?.postMessage
HandleMessage(type, key, data, size, ns, port) ==
    /\ ops < MaxOps
    /\ type \in {"store", "delete", "clear"} => MirrorsInFlight < MaxMirrors
    /\ storage' = CASE type = "store" -> WorkerStore(key, data, size)
                    [] type = "delete" -> WorkerDelete(key)
                    [] type = "clear" -> WorkerClear
                    [] OTHER -> storage
    /\ mirrors' = IF type \in {"store", "delete", "clear"}
                  THEN persistToCache(ns)
                  ELSE mirrors
    /\ handled' = Message(type, key, data, size, ns, port,
                          IF port THEN WorkerReply(type, key, storage') ELSE << >>)
    /\ latest' = CASE type = "store" -> [latest EXCEPT ![key] = Entry(data, size)]
                   [] type = "delete" -> [latest EXCEPT ![key] = NoEntry]
                   [] type = "clear" -> [k \in Keys |-> NoEntry]
                   [] OTHER -> latest
    /\ ops' = ops + 1
    /\ UNCHANGED << pending, env, live, options, initDone, hasServiceWorker, currentSize,
                    cacheStore, caches, controller, last, hist, cum >>

-----------------------------------------------------------------------------
(* The public methods await by await.  A call is invoked, runs to its next *)
(* await, and is resumed when what it awaits has happened; other calls run *)
(* in between.  No Cache Storage call rejects here.                        *)

NoResult == Returned(FALSE, NoValue, "", 0, FALSE)

\* A suspended call: where it is (pc), what its getItem returned (read),
\* what its setItem has computed (r), the record its read found (sd)
PendingCall(id, op, i, key, arg, pc) ==
    [id |-> id, op |-> op, inst |-> i, key |-> key, arg |-> arg, pc |-> pc,
     read |-> NoResult, r |-> NoResult, sd |-> NoData]

\* Where a method first suspends.  getStats, removeItem and clear do not
\* await initPromise; getStats posts its getSize message at once, and
\* controller?.postMessage posts nothing while no worker controls the page.
FirstPc(op, i) ==
    CASE op = "setItem" -> "start"
      [] op \in {"getItem", "updateItem"} -> "gstart"
      [] op = "removeItem" -> "delete"
      [] op = "getStats" ->
            IF hasServiceWorker[i] /\ ~controller THEN "unposted" ELSE "size"

Invoke(op, i, key, arg) ==
    /\ ops < MaxOps
    /\ Cardinality(pending) < MaxPending
    /\ i \in live
    /\ pending' = pending \cup {PendingCall(ops, op, i, key, arg, FirstPc(op, i))}
    /\ Track(i, FALSE, 0)
    /\ UNCHANGED << handled, latest, env, live, options, initDone, hasServiceWorker,
                    currentSize, cacheStore, storage, caches, controller, mirrors,
                    last, hist >>

\* the call goes on to its next await
Move(c, d) == pending' = (pending \ {c}) \cup {d}

\* the call returns r to its caller
Return(c, r) ==
    /\ pending' = pending \ {c}
    /\ last' = Call(c.op, c.inst, c.key, c.arg, NoSchema, "none", r)

\* A merge over the value the read cache holds when the write starts (what
\* UpdateFromRead is tested against)
updatedDataReread(c) == Merge(cacheStore[c.inst][c.key], c.arg)

\* const updatedData = { ...current.data, ...updates }
updatedData(c) == Merge(c.read.data, c.arg)

\* getItem has returned current: a getItem call returns it; an updateItem
\* call throws into its catch, or calls setItem with the merged data
AfterGetItem(c, current) ==
    /\ cacheStore' = IF current.cacheSet
                     THEN [cacheStore EXCEPT ![c.inst][c.key] = current.data]
                     ELSE cacheStore
    /\ IF c.op = "getItem" THEN Return(c, current)
       ELSE IF ~current.success \/ ~Truthy(current.data)
       THEN Return(c, updateItem(c.inst, c.key, c.arg, NoSchema, "none", current))
       ELSE /\ Move(c, [c EXCEPT !.pc = "start", !.read = current])
            /\ last' = last

\* getItem after await this.initPromise: the read-cache test, then the
\* retrieve message or caches.open
GetItemStart(c) ==
    /\ c \in pending /\ c.pc = "gstart"
    /\ initDone[c.inst]
    /\ IF CacheHit(cacheStore[c.inst][c.key])
       THEN AfterGetItem(c, Returned(TRUE, cacheStore[c.inst][c.key], "", 0, FALSE))
       ELSE /\ Move(c, [c EXCEPT !.pc = "read"])
            /\ UNCHANGED << cacheStore, last >>
    /\ UNCHANGED << handled, latest, env, live, options, initDone, hasServiceWorker,
                    currentSize, storage, caches, controller, mirrors, ops, hist,
                    cum >>

\* the worker handles the retrieve message, or cache.match resolves
GetItemRead(c) ==
    /\ c \in pending /\ c.pc = "read"
    /\ hasServiceWorker[c.inst] => controller
    /\ Move(c, [c EXCEPT !.pc = "decode",
                         !.sd = IF hasServiceWorker[c.inst]
                                THEN WorkerRetrieve(c.key)
                                ELSE caches[namespace(c.inst)][c.key]])
    /\ UNCHANGED << handled, latest, env, live, options, initDone, hasServiceWorker,
                    currentSize, cacheStore, storage, caches, controller, mirrors,
                    last, ops, hist, cum >>

\* the reply (or response.json()) has arrived: decrypt, decompress, parse,
\* this.cacheStore.set(key, parsed)
GetItemDecode(c) ==
    /\ c \in pending /\ c.pc = "decode"
    /\ AfterGetItem(c, Catch(decode(c.inst, c.sd,
                                    IF hasServiceWorker[c.inst] THEN 1 ELSE 2, "none")))
    /\ UNCHANGED << handled, latest, env, live, options, initDone, hasServiceWorker,
                    currentSize, storage, caches, controller, mirrors, ops, hist,
                    cum >>

\* setItem after await this.initPromise and await this.compress: the quota
\* check against this.currentSize as it is now, then the store message or
\* storeInCache
SetItemStart(c) ==
    /\ c \in pending /\ c.pc = "start"
    /\ initDone[c.inst]
    /\ \E r \in {setItem(c.inst, IF c.op = "updateItem" THEN updatedData(c) ELSE c.arg,
                         NoSchema, "none")} :
         IF r.stored
         THEN Move(c, [c EXCEPT !.pc = "put", !.r = r]) /\ last' = last
         ELSE Return(c, r)
    /\ UNCHANGED << handled, latest, env, live, options, initDone, hasServiceWorker,
                    currentSize, cacheStore, storage, caches, controller, mirrors,
                    ops, hist, cum >>

\* the worker handles the store message, or cache.put lands
SetItemPut(limit, c) ==
    /\ c \in pending /\ c.pc = "put"
    /\ CommitWithin(limit, c.inst, c.key,
                    [c.r EXCEPT !.success = FALSE, !.committed = FALSE], cacheStore)
    /\ Move(c, [c EXCEPT !.pc = "resume"])
    /\ UNCHANGED << handled, env, live, options, initDone, hasServiceWorker,
                    controller, last, ops, cum >>

\* the reply has arrived: this.currentSize += size, this.cacheStore.set
SetItemResume(c) ==
    /\ c \in pending /\ c.pc = "resume"
    /\ CommitWithin(MaxMirrors, c.inst, c.key, [c.r EXCEPT !.stored = FALSE], cacheStore)
    /\ Return(c, c.r)
    /\ UNCHANGED << handled, env, live, options, initDone, hasServiceWorker,
                    controller, ops, cum >>

\* removeItem: cache.delete lands
RemoveItemDelete(c) ==
    /\ c \in pending /\ c.pc = "delete"
    /\ caches' = [caches EXCEPT ![namespace(c.inst)][c.key] = NoData]
    /\ Move(c, [c EXCEPT !.pc = "deleted"])
    /\ UNCHANGED << handled, latest, env, live, options, initDone, hasServiceWorker,
                    currentSize, cacheStore, storage, controller, mirrors, last,
                    ops, hist, cum >>

\* removeItem resumes: this.cacheStore.delete(key); return true
RemoveItemResume(c) ==
    /\ c \in pending /\ c.pc = "deleted"
    /\ cacheStore' = [cacheStore EXCEPT ![c.inst][c.key] = NoValue]
    /\ hist' = HistRemove(c.inst, c.key)
    /\ Return(c, removeItem(c.inst, c.key, "none"))
    /\ UNCHANGED << handled, latest, env, live, options, initDone, hasServiceWorker,
                    currentSize, storage, caches, controller, mirrors, ops, cum >>

\* getStats: the getSize reply (or the cache walk) comes back, getStats
\* returns.  A call whose message was never posted is resumed by nothing.
GetStatsResume(c) ==
    /\ c \in pending /\ c.pc = "size"
    /\ \E used \in {calculateCurrentSize(c.inst, hasServiceWorker[c.inst], "none")} :
         /\ currentSize' = [currentSize EXCEPT ![c.inst] = used]
         /\ pending' = pending \ {c}
         /\ last' = [Call("getStats", c.inst, "", NoValue, NoSchema, "none",
                          Returned(TRUE, NoValue, "", 1, FALSE))
                       EXCEPT !.stats = [used |-> used, total |-> maxSize(c.inst),
                                         available |-> maxSize(c.inst) - used]]
    /\ UNCHANGED << handled, latest, env, live, options, initDone, hasServiceWorker,
                    cacheStore, storage, caches, controller, mirrors, ops, hist,
                    cum >>

-----------------------------------------------------------------------------

Next ==
    \/ \E i \in live, registered \in BOOLEAN, fault \in {"none", "cache"} :
         InitInstance(i, registered, fault)
    \/ \E i \in live, key \in Keys, data \in Values, schema \in Schemas :
         \E fault \in Faults(i) : SetItem(i, key, data, schema, fault)
    \/ \E i \in live, key \in Keys :
         \E fault \in Faults(i) : GetItem(i, key, fault)
    \/ \E i \in live, key \in Keys, updates \in Partials, schema \in Schemas :
         \E fault \in Faults(i) : UpdateItem(i, key, updates, schema, fault)
    \/ \E i \in live, key \in Keys, fault \in {"none", "cache"} :
         RemoveItem(i, key, fault)
    \/ \E i \in live, fault \in {"none", "cache"} : Clear(i, fault)
    \/ \E i \in live : \E fault \in Faults(i) \ {"compress"} : GetStats(i, fault)
    \/ \E i \in live, key \in Keys :
         \E fault \in Faults(i) \ {"compress"} : GetCompressionStats(i, key, fault)
    \/ \E t \in mirrors : MirrorSnapshot(t)
    \/ \E t \in mirrors : MirrorPut(t)

Spec == Init /\ [][Next]_vars

-----------------------------------------------------------------------------
(* A writer and a fresh reader: instance 1 writes, instance 2 (same        *)
(* options, an empty read cache) reads.  All codec combinations, no quota  *)
(* in the way.                                                             *)

InitCodec ==
    /\ InitWith({1, 2}, {0}, {"off", "on"}, BOOLEAN)
    /\ options[2] = options[1]

NextCodec ==
    \/ \E i \in live, registered \in BOOLEAN : InitInstance(i, registered, "none")
    \/ \E key \in Keys, data \in Values :
         \E fault \in Faults(1) : SetItem(1, key, data, NoSchema, fault)
    \/ \E key \in Keys : \E fault \in Faults(2) : GetItem(2, key, fault)
    \/ \E t \in mirrors : MirrorSnapshot(t)
    \/ \E t \in mirrors : MirrorPut(t)

SpecCodec == InitCodec /\ [][NextCodec]_vars

-----------------------------------------------------------------------------
(* A fresh instance on an empty namespace that only writes, with maxSize   *)
(* given as 0 or as SmallMaxSize.                                          *)

InitQuota == InitWith({1}, {0, SmallMaxSize}, {"off"}, {FALSE})

NextQuota ==
    \/ \E registered \in BOOLEAN, fault \in {"none", "cache"} :
         InitInstance(1, registered, fault)
    \/ \E key \in Keys, data \in Values, schema \in Schemas :
         \E fault \in Faults(1) : SetItem(1, key, data, schema, fault)
    \/ \E t \in mirrors : MirrorSnapshot(t)
    \/ \E t \in mirrors : MirrorPut(t)

SpecQuota == InitQuota /\ [][NextQuota]_vars

-----------------------------------------------------------------------------
(* Two instances on one page, configured with different namespaces.        *)

InitIsolation ==
    /\ InitWith({1, 2}, {SmallMaxSize}, {"off"}, {FALSE})
    /\ options[2].namespace = "other"

NextIsolation ==
    \/ \E i \in live, registered \in BOOLEAN : InitInstance(i, registered, "none")
    \/ \E i \in live, key \in Keys, data \in {Zero, Obj(Str("John"), Num("30"))} :
         SetItem(i, key, data, NoSchema, "none")
    \/ \E i \in live, key \in Keys : GetItem(i, key, "none")
    \/ \E i \in live : GetStats(i, "none")
    \/ \E t \in mirrors : MirrorSnapshot(t)
    \/ \E t \in mirrors : MirrorPut(t)

SpecIsolation == InitIsolation /\ [][NextIsolation]_vars

-----------------------------------------------------------------------------
(* The worker alone: a client posts messages of the five types, with or    *)
(* without a reply port, all for one namespace.                            *)

InitWorker ==
    /\ InitWith({}, {SmallMaxSize}, {"off"}, {FALSE})
    /\ env = [swAvailable |-> TRUE, hasWebCrypto |-> TRUE]

\* The storageData and the sizes the store messages carry
Payloads ==
    {StorageData(Text(Serialized[v]),
                 Metadata(FALSE, Len(Serialized[v]), Len(Serialized[v]))) :
       v \in {Zero, Obj(Str("John"), Num("30"))}}
Sizes == {1, 24}

NextWorker ==
    \/ \E type \in MessageTypes, key \in Keys, data \in Payloads, size \in Sizes,
          port \in BOOLEAN :
         HandleMessage(type, key, data, size, "application", port)
    \/ \E t \in mirrors : MirrorSnapshot(t)
    \/ \E t \in mirrors : MirrorPut(t)

SpecWorker == InitWorker /\ [][NextWorker]_vars

-----------------------------------------------------------------------------
(* One worker-backed instance that only writes, its mirrors overlapping;   *)
(* first with Cache Storage calls that may reject, then with calls that    *)
(* all complete, every started mirror running to its end.                  *)

InitMirror ==
    /\ InitWith({1}, {SmallMaxSize}, {"off"}, {FALSE})
    /\ env = [swAvailable |-> TRUE, hasWebCrypto |-> TRUE]

Written == {Zero, Obj(Str("John"), Num("30"))}

NextMirror ==
    \/ InitInstance(1, TRUE, "none")
    \/ \E key \in Keys, data \in Written :
         SetItemWithin(MaxOverlap, 1, key, data, NoSchema, "none")
    \/ \E t \in mirrors : MirrorSnapshot(t)
    \/ \E t \in mirrors : MirrorPut(t)
    \/ \E t \in mirrors : MirrorFail(t)

SpecMirror == InitMirror /\ [][NextMirror]_vars

NextDurable ==
    \/ InitInstance(1, TRUE, "none")
    \/ \E key \in Keys, data \in Written :
         SetItemWithin(MaxOverlap, 1, key, data, NoSchema, "none")
    \/ \E t \in mirrors : MirrorSnapshot(t)
    \/ \E t \in mirrors : MirrorPut(t)

\* persistToCache is a running async function: its awaits resolve
SpecDurable ==
    /\ InitMirror
    /\ [][NextDurable]_vars
    /\ WF_vars(\E t \in mirrors : MirrorSnapshot(t))
    /\ WF_vars(\E t \in mirrors : MirrorPut(t))

-----------------------------------------------------------------------------
(* One instance, no quota in the way, whose calls overlap: a setItem of an *)
(* object and updateItem calls that change its name or its age.            *)

InitUpdateRace == InitWith({1}, {0}, {"off"}, {FALSE})

Updates == {Obj(Str("Jane"), Undefined), Obj(Undefined, Num("31"))}

NextUpdateRace ==
    \/ \E registered \in BOOLEAN : InitInstance(1, registered, "none")
    \/ \E key \in Keys : Invoke("setItem", 1, key, Obj(Str("John"), Num("30")))
    \/ \E key \in Keys, updates \in Updates : Invoke("updateItem", 1, key, updates)
    \/ \E c \in pending : GetItemStart(c)
    \/ \E c \in pending : GetItemRead(c)
    \/ \E c \in pending : GetItemDecode(c)
    \/ \E c \in pending : SetItemStart(c)
    \/ \E c \in pending : SetItemPut(MaxOverlap, c)
    \/ \E c \in pending : SetItemResume(c)
    \/ \E t \in mirrors : MirrorSnapshot(t)
    \/ \E t \in mirrors : MirrorPut(t)

SpecUpdateRace == InitUpdateRace /\ [][NextUpdateRace]_vars

-----------------------------------------------------------------------------
(* One instance with a small quota whose setItem calls overlap.            *)

InitSetRace == InitWith({1}, {SmallMaxSize}, {"off"}, {FALSE})

NextSetRace ==
    \/ \E registered \in BOOLEAN : InitInstance(1, registered, "none")
    \/ \E key \in Keys, data \in Written : Invoke("setItem", 1, key, data)
    \/ \E c \in pending : SetItemStart(c)
    \/ \E c \in pending : SetItemPut(MaxOverlap, c)
    \/ \E c \in pending : SetItemResume(c)
    \/ \E t \in mirrors : MirrorSnapshot(t)
    \/ \E t \in mirrors : MirrorPut(t)

SpecSetRace == InitSetRace /\ [][NextSetRace]_vars

-----------------------------------------------------------------------------
(* One instance, no codec and no quota in the way, whose setItem, getItem  *)
(* and removeItem calls overlap.                                           *)

NextReadRace ==
    \/ \E registered \in BOOLEAN : InitInstance(1, registered, "none")
    \/ \E key \in Keys, data \in Written : Invoke("setItem", 1, key, data)
    \/ \E key \in Keys : Invoke("getItem", 1, key, NoValue)
    \/ \E key \in Keys : Invoke("removeItem", 1, key, NoValue)
    \/ \E c \in pending : GetItemStart(c)
    \/ \E c \in pending : GetItemRead(c)
    \/ \E c \in pending : GetItemDecode(c)
    \/ \E c \in pending : SetItemStart(c)
    \/ \E c \in pending : SetItemPut(MaxMirrors, c)
    \/ \E c \in pending : SetItemResume(c)
    \/ \E c \in pending : RemoveItemDelete(c)
    \/ \E c \in pending : RemoveItemResume(c)
    \/ \E t \in mirrors : MirrorSnapshot(t)
    \/ \E t \in mirrors : MirrorPut(t)

SpecReadRace == InitUpdateRace /\ [][NextReadRace]_vars

-----------------------------------------------------------------------------
(* One instance whose calls may be issued before init() has finished, run  *)
(* await by await, where every Cache Storage call completes, the           *)
(* registration settles, the worker takes control of the page and then     *)
(* handles every message posted to it.                                     *)

NextTermination ==
    \/ \E registered \in BOOLEAN : InitInstance(1, registered, "none")
    \/ \E key \in Keys : Invoke("setItem", 1, key, Zero)
    \/ \E key \in Keys : Invoke("getItem", 1, key, NoValue)
    \/ \E key \in Keys : Invoke("removeItem", 1, key, NoValue)
    \/ Invoke("getStats", 1, "", NoValue)
    \/ \E c \in pending : GetItemStart(c)
    \/ \E c \in pending : GetItemRead(c)
    \/ \E c \in pending : GetItemDecode(c)
    \/ \E c \in pending : SetItemStart(c)
    \/ \E c \in pending : SetItemPut(MaxMirrors, c)
    \/ \E c \in pending : SetItemResume(c)
    \/ \E c \in pending : RemoveItemDelete(c)
    \/ \E c \in pending : RemoveItemResume(c)
    \/ \E c \in pending : GetStatsResume(c)
    \/ \E t \in mirrors : MirrorSnapshot(t)
    \/ \E t \in mirrors : MirrorPut(t)

\* what the platform does on its own: everything but the invocations
Platform ==
    \/ \E registered \in BOOLEAN : InitInstance(1, registered, "none")
    \/ \E c \in pending : GetItemStart(c)
    \/ \E c \in pending : GetItemRead(c)
    \/ \E c \in pending : GetItemDecode(c)
    \/ \E c \in pending : SetItemStart(c)
    \/ \E c \in pending : SetItemPut(MaxMirrors, c)
    \/ \E c \in pending : SetItemResume(c)
    \/ \E c \in pending : RemoveItemDelete(c)
    \/ \E c \in pending : RemoveItemResume(c)
    \/ \E c \in pending : GetStatsResume(c)
    \/ \E t \in mirrors : MirrorSnapshot(t)
    \/ \E t \in mirrors : MirrorPut(t)

SpecTermination ==
    InitUpdateRace /\ [][NextTermination]_vars /\ WF_vars(Platform)

-----------------------------------------------------------------------------
(* Two instances of one namespace on one page, no codec and no quota in    *)
(* the way, each writing and reading the same keys.                        *)

InitShared ==
    /\ InitWith({1, 2}, {0}, {"off"}, {FALSE})
    /\ options[2] = options[1]

NextShared ==
    \/ \E i \in live, registered \in BOOLEAN : InitInstance(i, registered, "none")
    \/ \E i \in live, key \in Keys, data \in Written :
         SetItem(i, key, data, NoSchema, "none")
    \/ \E i \in live, key \in Keys : GetItem(i, key, "none")
    \/ \E t \in mirrors : MirrorSnapshot(t)
    \/ \E t \in mirrors : MirrorPut(t)

SpecShared == InitShared /\ [][NextShared]_vars

-----------------------------------------------------------------------------
(* validateSchema alone, applied to data objects whose fields hold a value *)
(* of each kind, under schemas that declare each type.                     *)

\* validateSchema(data, schema) called with nothing catching what it throws
ValidateSchema(data, schema) ==
    /\ \E valid \in {validateSchema(data, schema)} :
         last' = Call("validateSchema", 1, "", data, schema, "none",
                      IF valid.threw THEN Thrown(valid.error, 0)
                      ELSE Returned(TRUE, NoValue, "", 0, FALSE))
    /\ UNCHANGED << pending, handled, latest, env, live, options, initDone,
                    hasServiceWorker, currentSize, cacheStore, storage, caches,
                    controller, mirrors, ops, hist, cum >>

NextValidator ==
    \E data \in SampleData, schema \in TypedSchemas : ValidateSchema(data, schema)

\* validateSchema reads nothing of the page
InitValidator == InitUpdateRace /\ ~env.swAvailable

SpecValidator == InitValidator /\ [][NextValidator]_vars

-----------------------------------------------------------------------------
(* Properties                                                              *)

\* Everything a write can change
stores == << storage, caches, mirrors, cacheStore, currentSize >>

\* This step is a public call of op (it is last in the next state)
CallStep(op) == ops' = ops + 1 /\ last'.op = op

\* The backend of instance i holds an entry for key
BackendHas(i, key) ==
    IF hasServiceWorker[i] THEN storage[key].sd.has ELSE caches[namespace(i)][key].has

\* The serialized text the backend of instance i holds for key
BackendText(i, key) ==
    IF hasServiceWorker[i] THEN storage[key].sd.data.text
    ELSE caches[namespace(i)][key].data.text

\* C1: after setItem(k, v) succeeded and removeItem(k) returned true, the next
\* getItem(k) on the same instance fails with "Item not found", on either
\* backend.
RemovedIsNotFound ==
    (last.op = "getItem" /\ last.fault = "none"
       /\ hist[last.inst][last.key] = "removed")
    => (~last.success /\ last.error = "Item not found")

\* C2: after clear() returned true, getItem(k) fails with "Item not found"
\* for every key k stored before the clear and not written since, on either
\* backend.
ClearedIsNotFound ==
    (last.op = "getItem" /\ last.fault = "none"
       /\ hist[last.inst][last.key] = "cleared")
    => (~last.success /\ last.error = "Item not found")

\* C3: round trip.  A getItem(k) that misses the read cache, made by an
\* instance with the same options and the same backend as the instance whose
\* setItem(k, V) succeeded, returns success with data equal to V, whatever
\* the compression and encryption options.
RoundTrip ==
    (last.op = "getItem" /\ last.inst = 2 /\ last.fault = "none" /\ last.calls > 0
       /\ hist[1][last.key] = "set" /\ hasServiceWorker[1] = hasServiceWorker[2])
    => (last.success /\ last.data = cacheStore[1][last.key])

\* C4: read-through cache.  A getItem(k) immediately after a successful
\* setItem(k, v) on the same instance returns success with v and makes no
\* backend access, for every JSON value v.
ReadThrough ==
    [][(last.op = "setItem" /\ last.success /\ CallStep("getItem")
          /\ last'.inst = last.inst /\ last'.key = last.key)
       => (last'.success /\ last'.data = last.arg /\ last'.calls = 0)]_vars

\* C5: failure atomicity of setItem.  A setItem that returns success:false
\* leaves the backend's entries, the read cache and currentSize as they were,
\* whatever stage failed; a quota failure is decided before any backend call.
FailureAtomicity ==
    [][(CallStep("setItem") /\ ~last'.success)
       => /\ UNCHANGED stores
          /\ last'.error = "Storage quota exceeded" => last'.calls = 0]_vars

\* a quota failure with entries already stored
FailureAtomicityWitness ==
    /\ last.op = "setItem" /\ ~last.success
    /\ last.error = "Storage quota exceeded"
    /\ currentSize[last.inst] > 0
    /\ BackendHas(last.inst, "a")

\* C6: quota over a sequence.  For a fresh instance on an empty namespace
\* configured with maxSize M that makes only setItem calls: a call succeeds
\* while the cumulative recorded size stays at or below M, and a call that
\* would bring it above M fails with "Storage quota exceeded" and leaves the
\* stored entries unchanged.
QuotaSequence ==
    [][(CallStep("setItem") /\ cum[last'.inst] >= 0 /\ ~last'.schema
          /\ last'.fault = "none")
       => IF cum[last'.inst] + last'.size <= options[last'.inst].maxSize
          THEN last'.success
          ELSE /\ ~last'.success
               /\ last'.error = "Storage quota exceeded"
               /\ UNCHANGED << storage, caches >>]_vars

\* v fails UserSchema: name (required, a string) is missing or no string, or
\* age (a number the predicate accepts only as 31) is present and is no
\* number or is not 31
FailsUserSchema(v) ==
    \/ v.f["name"] = Undefined
    \/ v.f["name"].t # "string"
    \/ v.f["age"] # Undefined /\ v.f["age"].t # "number"
    \/ v.f["age"] # Undefined /\ v.f["age"] # Num("31")

\* C7: schema gate.  A setItem(k, v, schema) whose v fails the schema returns
\* a failure, makes no backend call, and leaves the backend, the read cache
\* and currentSize unchanged.
SchemaGate ==
    [][(CallStep("setItem") /\ last'.schema /\ FailsUserSchema(last'.arg))
       => (~last'.success /\ last'.calls = 0 /\ UNCHANGED stores)]_vars

\* a value with a rejected age is refused while the store holds data
SchemaGateWitness ==
    /\ last.op = "setItem" /\ last.schema /\ ~last.success
    /\ last.arg = Obj(Str("John"), Num("30"))
    /\ last.error = "Validation failed for age"
    /\ currentSize[last.inst] > 0

\* m is p laid over v: the fields p names have p's value, the others v's
IsMergeOf(m, v, p) ==
    /\ m.t = "object"
    /\ \A n \in Fields :
         m.f[n] = (IF p.f[n] # Undefined THEN p.f[n] ELSE v.f[n])

\* C8: update semantics.  When k holds the object v (what getItem(k) gives)
\* and updateItem(k, p) succeeds, k then holds the shallow merge of p over v:
\* the call returns it, the backend and the read cache hold it, and a
\* following getItem(k) returns exactly it.
UpdateSemantics ==
    [][\A i \in Instances, k \in Keys :
         (CallStep("updateItem") /\ last'.success /\ last'.inst = i /\ last'.key = k)
         => /\ IsMergeOf(last'.data, getItem(i, k, last'.fault).data, last'.arg)
            /\ cacheStore'[i][k] = last'.data
            /\ BackendText(i, k)' = JSONstringify(last'.data)
            /\ getItem(i, k, "none")'.success
            /\ getItem(i, k, "none")'.data = last'.data]_vars

\* {age: 31} was laid over an object that had a name
UpdateSemanticsWitness ==
    /\ last.op = "updateItem" /\ last.success
    /\ last.arg = Obj(Undefined, Num("31"))
    /\ last.data = Obj(Str("John"), Num("31"))
    /\ cacheStore[last.inst][last.key] = Obj(Str("John"), Num("31"))

\* C9: updateItem(k, p) on a key with no entry in the read cache and none in
\* the backend returns the failure "Item with key k not found" and writes
\* nothing: no store message, no cache put, read cache and currentSize
\* unchanged.
UpdateMissing ==
    [][(CallStep("updateItem") /\ cacheStore[last'.inst][last'.key] = NoValue
          /\ ~BackendHas(last'.inst, last'.key))
       => /\ ~last'.success
          /\ last'.error = "Item with key " \o last'.key \o " not found"
          /\ UNCHANGED stores]_vars

\* an updateItem of a key nothing holds, while another key is stored
UpdateMissingWitness ==
    /\ last.op = "updateItem" /\ ~last.success
    /\ last.error = "Item with key b not found"
    /\ cacheStore[last.inst]["b"] = NoValue /\ ~BackendHas(last.inst, "b")
    /\ BackendHas(last.inst, "a")

\* C10: no public operation ends by throwing or rejecting; when an internal
\* step failed, the operation completed with a failure value.
NoThrow ==
    /\ ~last.threw
    /\ last.caught => ~last.success
    /\ (last.caught /\ last.op \in {"setItem", "getItem", "updateItem"})
         => last.error # ""

\* every method with a catch block has used it
NoThrowWitness ==
    /\ last.caught
    /\ last.op = "clear"
    /\ last.fault = "cache"

\* C11: initialization ordering.  A public operation makes no backend access
\* (worker message or persistent-cache call) while the instance's init() has
\* not completed.
InitFirst ==
    [][(ops' = ops + 1 /\ last'.calls > 0) => initDone[last'.inst]]_vars

\* C12: namespace isolation.  A setItem(k, v) through one instance changes
\* neither what a cache-missing getItem(k) returns nor what getStats().used
\* is on an instance configured with another namespace, and writes nothing
\* under that other namespace.
NamespaceIsolation ==
    [][\A j \in Instances, k \in Keys :
         (CallStep("setItem") /\ last'.key = k /\ j \in live /\ initDone[j]
            /\ namespace(j) # namespace(last'.inst) /\ cacheStore[j][k] = NoValue)
         => /\ getItem(j, k, "none")' = getItem(j, k, "none")
            /\ calculateCurrentSize(j, hasServiceWorker[j], "none")'
                 = calculateCurrentSize(j, hasServiceWorker[j], "none")
            /\ caches'[namespace(j)] = caches[namespace(j)]]_vars

\* The total the backend of instance i holds: the sizes in the worker's Map,
\* or the byte lengths of the bodies stored under the namespace
BackendTotal(i) ==
    IF hasServiceWorker[i]
    THEN SumOver([k \in Keys |-> storage[k].size], Keys)
    ELSE SumOver([k \in Keys |-> IF caches[namespace(i)][k].has
                                  THEN BodyLength(caches[namespace(i)][k]) ELSE 0],
                 Keys)

HandleStep(type) == ops' = ops + 1 /\ last' = last /\ handled'.type = type

\* C14: worker protocol replies.  For a store, retrieve, delete, clear or
\* getSize message that arrives with a reply port, the handler posts exactly
\* one reply, while handling it: {success: true} for store, delete and clear,
\* the stored payload or null for retrieve, {size: n} for getSize.
OneReply ==
    (handled.type \in MessageTypes /\ handled.port)
    => /\ Len(handled.replies) = 1
       /\ handled.type \in {"store", "delete", "clear"}
            => handled.replies[1].kind = "success"
       /\ handled.type = "retrieve"
            => /\ handled.replies[1].kind = "payload"
               /\ handled.replies[1].sd = latest[handled.key].sd
       /\ handled.type = "getSize"
            => /\ handled.replies[1].kind = "size"
               /\ handled.replies[1].size =
                    SumOver([k \in Keys |-> latest[k].size], Keys)

\* a delete that came with a port was answered, the Map holding another key
OneReplyWitness ==
    /\ handled.type = "delete" /\ handled.port
    /\ handled.replies = << Reply("success", NoData, 0) >>
    /\ \E k \in Keys : storage[k].sd.has

\* C15: worker store/retrieve.  Each handler changes the Map in one step:
\* store sets the key's entry, delete removes it, clear removes all, and
\* nothing else changes; retrieve and getSize leave the Map alone; retrieve
\* replies with the data of the last store of the key, or null when the key
\* was never stored or was deleted or cleared since.
StoreRetrieve ==
    [][\A k \in Keys :
         /\ (HandleStep("store") /\ handled'.key = k)
              => /\ storage'[k] = [sd |-> handled'.data, size |-> handled'.size]
                 /\ \A x \in Keys \ {k} : storage'[x] = storage[x]
         /\ (HandleStep("delete") /\ handled'.key = k)
              => /\ ~storage'[k].sd.has
                 /\ \A x \in Keys \ {k} : storage'[x] = storage[x]
         /\ HandleStep("clear") => ~storage'[k].sd.has
         /\ (HandleStep("retrieve") \/ HandleStep("getSize")) => storage' = storage
         /\ (HandleStep("retrieve") /\ handled'.key = k /\ handled'.port)
              => handled'.replies = << Reply("payload", latest[k].sd, 0) >>]_vars

\* a retrieve answered null for a key whose entry another message removed,
\* while the other key is still held
StoreRetrieveWitness ==
    /\ handled.type = "retrieve" /\ handled.port /\ handled.key = "a"
    /\ handled.replies = << Reply("payload", NoData, 0) >>
    /\ storage["b"].sd.has
    /\ ops = 3

\* C16: worker getSize.  In every state the size getSize replies with is the
\* sum, over the keys the Map holds, of the size of the last store message
\* for that key; an overwriting store replaces the key's contribution, delete
\* and clear remove contributions.
SizeIsSum ==
    /\ WorkerGetSize = SumOver([k \in Keys |-> latest[k].size], Keys)
    /\ \A k \in Keys : storage[k].sd.has <=> latest[k].sd.has
    /\ \A k \in Keys : ~latest[k].sd.has => latest[k].size = 0

\* getSize answered 25 with both keys held, after three messages
SizeIsSumWitness ==
    /\ handled.type = "getSize" /\ handled.port
    /\ handled.replies = << Reply("size", NoData, 25) >>
    /\ storage["a"].size = 24 /\ storage["b"].size = 1

\* C17: size accounting.  With one instance as the only writer of its
\* namespace, when a setItem (or the setItem an updateItem ends in) completes
\* with success, the instance's currentSize equals the total the backend
\* holds at that moment.
SizeAccounting ==
    [][\A i \in Instances :
         ( /\ CallStep("setItem") \/ CallStep("updateItem")
           /\ last'.inst = i
           /\ last'.success )
         => currentSize'[i] = BackendTotal(i)']_vars

\* C18: mirror consistency.  Whenever no persistToCache is in flight, the
\* cache of the namespace holds an entry exactly for the keys the worker's
\* Map holds, and each entry's body is the Map's payload for the key; so a
\* key removed by delete or clear has no entry once that message's mirror
\* has finished.
MirrorConsistency ==
    mirrors = {}
    => \A k \in Keys :
         /\ caches["application"][k].has <=> storage[k].sd.has
         /\ storage[k].sd.has => caches["application"][k] = Body(storage[k].sd)

\* C19: fire and forget.  A setItem that succeeds on the worker-backed
\* backend returns with the mirror only started: the step leaves Cache
\* Storage as it was and a new persistToCache waiting for caches.open.  What
\* the mirror does afterwards, failing included, changes nothing of what the
\* call returned.
FireAndForget ==
    [][/\ \A i \in Instances :
            ( /\ CallStep("setItem")
              /\ last'.inst = i
              /\ last'.success
              /\ hasServiceWorker[i] )
            => /\ caches' = caches
               /\ \E t \in mirrors' \ mirrors : t.phase = "open"
       /\ mirrors' \subseteq mirrors /\ mirrors' # mirrors /\ caches' = caches
            => last' = last]_vars

\* setItem('a', ...) has returned success on the worker-backed backend, its
\* mirror has failed, and the cache holds no entry for 'a'
FireAndForgetWitness ==
    /\ last.op = "setItem" /\ last.success /\ last.key = "a"
    /\ hasServiceWorker[last.inst]
    /\ ~caches[namespace(last.inst)]["a"].has
    /\ mirrors = {}

\* C20: eventual durability.  On the worker-backed backend, with every Cache
\* Storage call completing, the payload of a successful setItem(k, v) that
\* nothing removes or overwrites later (the payload the worker's Map ends up
\* holding for k) is eventually the body of the cache entry of k, and stays
\* so.
EventualDurability ==
    \A k \in Keys :
      <>[](storage[k].sd.has => caches["application"][k] = Body(storage[k].sd))

\* C21: removeItem and clear leave every currentSize as it was, whether they
\* return true or false; a step changes the currentSize of an instance only
\* when it is a successful setItem of that instance (an updateItem ends in
\* one), adding the size written, or a recompute: the instance's init, or
\* its getStats.
CounterFrame ==
    [][/\ (CallStep("removeItem") \/ CallStep("clear")) => currentSize' = currentSize
       /\ \A i \in Instances :
            currentSize'[i] # currentSize[i]
            => \/ /\ CallStep("setItem") \/ CallStep("updateItem")
                  /\ last'.inst = i /\ last'.success
                  /\ currentSize'[i] = currentSize[i] + last'.size
               \/ /\ CallStep("getStats") /\ last'.inst = i
                  /\ currentSize'[i] = last'.stats.used
               \/ ~initDone[i] /\ initDone'[i]]_vars

\* a removeItem or clear has emptied the direct backend, and the counter is
\* still at the 24 bytes the setItem before it had added
CounterFrameWitness ==
    /\ last.op \in {"removeItem", "clear"}
    /\ currentSize[last.inst] = 24
    /\ \A k \in Keys : ~BackendHas(last.inst, k)
    /\ ~hasServiceWorker[last.inst]

\* C22: backend selection.  The hasServiceWorker flag of an instance changes
\* only from true to false and only in the step that completes its init (so
\* at most once, and never back); an instance downgraded that way makes its
\* setItem and getItem calls on the direct path: no message reaches the
\* worker, the Map and the mirrors stay as they are, and a successful
\* setItem leaves its entry in the cache of the namespace.
BackendSelection ==
    [][\A i \in Instances :
         /\ hasServiceWorker'[i] # hasServiceWorker[i]
              => /\ hasServiceWorker[i] /\ ~hasServiceWorker'[i]
                 /\ ~initDone[i] /\ initDone'[i]
         /\ ( /\ CallStep("setItem") \/ CallStep("getItem")
              /\ last'.inst = i
              /\ env.swAvailable /\ ~hasServiceWorker[i] )
              => /\ storage' = storage /\ mirrors' = mirrors /\ handled' = handled
                 /\ last'.calls \in {0, 2} \/ last'.fault = "cache"
                 /\ (last'.op = "setItem" /\ last'.success)
                      => caches'[namespace(i)][last'.key].has]_vars

\* on a page with service workers, an instance whose registration failed has
\* read back from the cache the value its setItem had put there
BackendSelectionWitness ==
    /\ env.swAvailable /\ initDone[last.inst] /\ ~hasServiceWorker[last.inst]
    /\ last.op = "getItem" /\ last.success /\ last.calls = 2
    /\ hist[last.inst][last.key] = "set"

\* The record the backend of instance i holds for key
BackendEntry(i, key) ==
    IF hasServiceWorker[i] THEN storage[key].sd ELSE caches[namespace(i)][key]

\* C23: compression is best effort.  With compression enabled and a value
\* whose serialized text reaches the threshold, a setItem whose compression
\* step fails (or finds no compression capability) succeeds; the record it
\* stores holds the serialized text uncompressed, with metadata compressed =
\* false and compressedSize = originalSize; and a getItem that misses the
\* read cache (instance 2, same options) decodes the original value from it.
BestEffortCompression ==
    [][\A i \in Instances, k \in Keys :
       ( /\ CallStep("setItem")
         /\ last'.inst = i /\ last'.key = k
         /\ last'.fault = "compress"
         /\ options[i].compression
         /\ Len(Serialized[last'.arg]) >= options[i].threshold )
       => /\ last'.success
          /\ \E e \in {BackendEntry(i, k)'} :
               /\ e.has
               /\ ~e.metadata.compressed
               /\ e.metadata.originalSize = Len(Serialized[last'.arg])
               /\ e.metadata.compressedSize = e.metadata.originalSize
               /\ e.data.text = Serialized[last'.arg]
               /\ e.data.form = "string"
                    \/ (e.data.form = "EncryptedData" /\ ~e.data.wasCompressed)
               /\ decode(2, e, 0, "none").success
               /\ decode(2, e, 0, "none").data = last'.arg]_vars

\* instance 2 has read back, past its empty read cache, a value that was
\* stored uncompressed although compression is enabled and its text reaches
\* the threshold
BestEffortCompressionWitness ==
    /\ last.op = "getItem" /\ last.inst = 2 /\ last.success /\ last.calls > 0
    /\ options[2].compression
    /\ last.data \in Objects
    /\ BackendEntry(2, last.key).has
    /\ ~BackendEntry(2, last.key).metadata.compressed
    /\ BackendEntry(2, last.key).metadata.originalSize >= options[2].threshold

\* C26: read-cache coherence.  With one instance as the only writer of its
\* namespace and none of its calls in flight, every key the read cache holds
\* has a record in the backend, and the cached value is the value a getItem
\* that misses the read cache would decode from that record.
ReadCacheCoherence ==
    \A i \in live, k \in Keys :
      (pending = {} /\ cacheStore[i][k] # NoValue)
      => /\ BackendEntry(i, k).has
         /\ decode(i, BackendEntry(i, k), 0, "none").success
         /\ decode(i, BackendEntry(i, k), 0, "none").data = cacheStore[i][k]

\* C24: updateItem is a read-modify-write that is not atomic.  What an
\* updateItem call writes, and returns with success, is the merge of its
\* updates into the value its own getItem returned, whatever other calls
\* have written to the key since that read; so of two overlapping calls that
\* update different fields, both returning success, the value left stored
\* (and in the read cache, from which getItem answers) can hold only one
\* update.
UpdateFromRead ==
    [][\A c \in pending :
         /\ (c.op = "updateItem" /\ c.pc = "put" /\ c \notin pending')
              => BackendText(c.inst, c.key)' = Serialized[Merge(c.read.data, c.arg)]
         /\ (c.op = "updateItem" /\ c.pc = "resume" /\ c \notin pending')
              => /\ last'.success
                 /\ last'.data = Merge(c.read.data, c.arg)
                 /\ cacheStore'[c.inst][c.key] = last'.data]_vars

\* {name:'John', age:30} was stored under 'a'; updateItem('a', {name:'Jane'})
\* and updateItem('a', {age:31}) overlapped and both succeeded (the second
\* returned last; three writes, 72 bytes, were counted); nothing is in
\* flight; the backend holds {name:'Jane', age:30}, without the new age, and
\* getItem('a') returns {name:'John', age:31}, without the new name
UpdateFromReadWitness ==
    /\ pending = {} /\ mirrors = {}
    /\ last.op = "updateItem" /\ last.success /\ last.key = "a"
    /\ last.arg = Obj(Undefined, Num("31"))
    /\ currentSize[1] = 72
    /\ BackendText(1, "a") = Serialized[Obj(Str("Jane"), Num("30"))]
    /\ getItem(1, "a", "none").success
    /\ getItem(1, "a", "none").data = Obj(Str("John"), Num("31"))

\* C25: quota under concurrency.  With one instance as the only writer of
\* its namespace and only setItem calls, overlapping as they may, the
\* currentSize of the instance never exceeds its maxSize.
QuotaNeverExceeded == \A i \in live : currentSize[i] <= maxSize(i)

\* C27: no resurrection.  On the worker-backed backend, once a removeItem of
\* key k has returned true and no later call has written k, the persistent
\* cache holds no entry at k, whatever calls on other keys and whatever
\* persistToCache runs follow.
NoResurrection ==
    \A i \in live, k \in Keys :
      (initDone[i] /\ hasServiceWorker[i] /\ hist[i][k] = "removed")
      => ~caches[namespace(i)][k].has

\* C28: termination.  Where every Cache Storage call completes and the
\* worker handles every message posted to it, every call of a public method
\* eventually returns, calls made before init() has finished and calls made
\* while no worker controls the page included.
EveryCallReturns ==
    \A id \in 0..(MaxOps - 1) :
      (\E c \in pending : c.id = id) ~> ~(\E c \in pending : c.id = id)

\* C29: cross-instance visibility.  For two instances A and B of one
\* namespace attached to the same worker, a getItem(k) by B made after
\* setItem(k, v2) by A succeeded, with no write of k since, returns success
\* with v2, whatever B read or wrote at k before.
CrossInstanceVisibility ==
    \A A, B \in live :
      (A # B /\ namespace(A) = namespace(B)
         /\ hasServiceWorker[A] /\ hasServiceWorker[B]
         /\ last.op = "getItem" /\ last.inst = B /\ hist[A][last.key] = "set")
      => (last.success /\ last.data = cacheStore[A][last.key])

\* C30: the validator's type check.  For each type a schema may declare
\* (string, number, boolean, object, array), validateSchema raises no type
\* error for a present field whose value is of the declared kind (an array
\* under 'array' included), and throws when a present field holds a value of
\* a different kind.
ValidatorTypeCheck ==
    last.op = "validateSchema" =>
      \A n \in Fields :
        LET value == last.arg.f[n]
            declared == last.defs[n].type
        IN  /\ (value # Undefined /\ KindOf(value) = declared)
                 => ~(last.threw /\ last.error = "Invalid type for " \o n)
            /\ (value # Undefined /\ KindOf(value) # declared) => last.threw

====
